---- MODULE Spec2Model ----
(***************************************************************************)
(* Model of zephyr/lib/bugdown/__init__.py: the Bugdown Markdown dialect.  *)
(*                                                                         *)
(* A Python string is a sequence of one-character strings.  None is the    *)
(* one-element sequence NONE, whose element is no character.  Four         *)
(* characters are written by name: "BACKTICK", "LF" (newline), "TAB" and   *)
(* "PH" (an inline placeholder of the engine).                             *)
(*                                                                         *)
(* The module holds five specifications over one set of variables:         *)
(*   SpecLink     sanitize_url, LinkPattern.handleMatch, AutoLink          *)
(*   SpecUList    BugdownUListPreprocessor.run                             *)
(*   SpecConvert  convert, one call at a time                              *)
(*   SpecConc     convert, called from several threads                     *)
(*   SpecWire     Bugdown.extendMarkdown                                   *)
(* Each leaves the variables of the others at their initial value.         *)
(***************************************************************************)
EXTENDS Integers, Sequences, FiniteSets, TLC

VARIABLES
    linkArg,         \* the call of the link layer the behaviour makes
    linkOp,          \* the operation that ran, "none" before it has
    urlIn,           \* the url it had to sanitize, NONE when it had none
    urlOut,          \* sanitize_url's return value
    anchor,          \* the element handleMatch returned
    ulLines,         \* BugdownUListPreprocessor.run: its argument
    ulCopy,          \* ... and its return value
    ulDone,          \* run has returned
    cvMd,            \* convert: the message it is called with
    cvCalls,         \* the calls of convert that have ended, in order
    cvLog,           \* the records handed to the root logger, in order
    pc,              \* threads: where each one is inside convert
    calls,           \* threads: how many calls each one has started
    engine,          \* threads: who reset _md_engine last, who touched it since
    abandoned,       \* threads: the timed-out pipeline runs still in flight
    preprocessors,   \* md.preprocessors, in order
    blockprocessors, \* md.parser.blockprocessors, in order
    inlinePatterns,  \* md.inlinePatterns, in order
    wired            \* extendMarkdown has run

vars == <<linkArg, linkOp, urlIn, urlOut, anchor, ulLines, ulCopy, ulDone,
          cvMd, cvCalls, cvLog, pc, calls, engine, abandoned,
          preprocessors, blockprocessors, inlinePatterns, wired>>

linkVars == <<linkArg, linkOp, urlIn, urlOut, anchor>>
ulVars   == <<ulLines, ulCopy, ulDone>>
cvVars   == <<cvMd, cvCalls, cvLog>>
concVars == <<pc, calls, engine, abandoned>>
wireVars == <<preprocessors, blockprocessors, inlinePatterns, wired>>

(***************************************************************************)
(* Bounds                                                                  *)
(***************************************************************************)
\* the longest generated tail of a url handed to sanitize_url
MaxTail == 3
\* the longest generated tail of an href captured by the Link pattern
MaxHrefTail == 2
\* the most lines handed to the preprocessor
MaxLines == 4
\* the longest message handed to convert
MaxMsg == 2
\* the most calls of convert in a row
MaxConvertCalls == 2
\* the most calls of convert each thread makes
MaxCalls == 2

(***************************************************************************)
(* Strings                                                                 *)
(***************************************************************************)
NONE == <<"<None>">>

RECURSIVE SeqsUpTo(_, _)
SeqsUpTo(A, n) ==
    IF n = 0 THEN {<<>>}
    ELSE LET S == SeqsUpTo(A, n - 1)
         IN  S \cup {Append(s, c) : s \in {t \in S : Len(t) = n - 1}, c \in A}

Contains(s, c) == \E i \in 1..Len(s) : s[i] = c

\* str.find(c, start): the first index >= start holding c, 0 when there is none
\* (indices from 1)
Find(s, c, start) ==
    IF \E i \in start..Len(s) : s[i] = c
    THEN CHOOSE i \in start..Len(s) : s[i] = c /\ \A j \in start..(i - 1) : s[j] # c
    ELSE 0

\* str.rfind(c): the last index holding c, 0 when there is none
RFind(s, c) ==
    IF Contains(s, c)
    THEN CHOOSE i \in 1..Len(s) : s[i] = c /\ \A j \in (i + 1)..Len(s) : s[j] # c
    ELSE 0

\* s[:n] and s[n:] of Python, n counted from 0
Take(s, n) == SubSeq(s, 1, IF n < Len(s) THEN n ELSE Len(s))
Drop(s, n) == SubSeq(s, n + 1, Len(s))

StartsWith(s, p) == Len(s) >= Len(p) /\ SubSeq(s, 1, Len(p)) = p

RECURSIVE Flatten(_)
Flatten(ss) == IF ss = <<>> THEN <<>> ELSE Head(ss) \o Flatten(Tail(ss))

LowerLetters == {"a","b","c","d","e","f","g","h","i","j","k","l","m",
                 "n","o","p","q","r","s","t","u","v","w","x","y","z"}
UpperLetters == {"H","T","P"}
Digits == {"0","1","2","3","4","5","6","7","8","9"}

\* str.lower(), on the letters the model uses
LowerChar(c) ==
    CASE c = "H" -> "h"
      [] c = "T" -> "t"
      [] c = "P" -> "p"
      [] OTHER   -> c
Lower(s) == [i \in 1..Len(s) |-> LowerChar(s[i])]

\* \w of re, with re.UNICODE
IsWord(c) == c \in LowerLetters \cup UpperLetters \cup Digits \cup {"_"}
IsSpace(c) == c \in {" ", "LF", "TAB"}

(***************************************************************************)
(* urlparse (Python 2.7 standard library), as sanitize_url uses it         *)
(***************************************************************************)
SchemeChars == LowerLetters \cup UpperLetters \cup Digits \cup {"+", "-", "."}

HTTP == <<"h","t","t","p">>
HTTPS == <<"h","t","t","p","s">>
MAILTO == <<"m","a","i","l","t","o">>
NEWS == <<"n","e","w","s">>
HttpSlashes == <<"h","t","t","p",":","/","/">>
HttpsSlashes == <<"h","t","t","p","s",":","/","/">>

\* urlparse.uses_params
UsesParams ==
    {<<"f","t","p">>, <<"h","d","l">>, <<"p","r","o","s","p","e","r","o">>, 
     <<"h","t","t","p">>, <<"i","m","a","p">>, <<"h","t","t","p","s">>, 
     <<"s","h","t","t","p">>, <<"r","t","s","p">>, <<"r","t","s","p","u">>, 
     <<"s","i","p">>, <<"s","i","p","s">>, <<"m","m","s">>, <<>>, 
     <<"s","f","t","p">>, <<"t","e","l">>}

\* urlparse.uses_netloc
UsesNetloc ==
    {<<"f","t","p">>, <<"h","t","t","p">>, <<"g","o","p","h","e","r">>, 
     <<"n","n","t","p">>, <<"t","e","l","n","e","t">>, <<"i","m","a","p">>, 
     <<"w","a","i","s">>, <<"f","i","l","e">>, <<"m","m","s">>, 
     <<"h","t","t","p","s">>, <<"s","h","t","t","p">>, 
     <<"s","n","e","w","s">>, <<"p","r","o","s","p","e","r","o">>, 
     <<"r","t","s","p">>, <<"r","t","s","p","u">>, <<"r","s","y","n","c">>, 
     <<>>, <<"s","v","n">>, <<"s","v","n","+","s","s","h">>, 
     <<"s","f","t","p">>, <<"n","f","s">>, <<"g","i","t">>, 
     <<"g","i","t","+","s","s","h">>}

\* the scheme urlsplit takes off the front of url, and what is left:
\* <<scheme, rest>>.  A name before the first ':' is a scheme when it is
\* 'http', or when it is made of scheme characters and what follows is not a
\* port number.
SplitScheme(url) ==
    LET i == Find(url, ":", 1)
        name == Take(url, i - 1)
        rest == Drop(url, i)
    IN  IF i > 1
        THEN IF name = HTTP THEN <<HTTP, rest>>
             ELSE IF \A k \in 1..Len(name) : name[k] \in SchemeChars
                  THEN IF rest = <<>> \/ \E k \in 1..Len(rest) : rest[k] \notin Digits
                       THEN <<Lower(name), rest>>
                       ELSE <<<<>>, url>>
                  ELSE <<<<>>, url>>
        ELSE <<<<>>, url>>

\* urlparse._splitnetloc(url, 2): <<netloc, rest>>, the netloc ending at the
\* first of '/', '?', '#' after the two slashes
SplitNetloc(url) ==
    LET ends == {Find(url, c, 3) : c \in {"/", "?", "#"}} \ {0}
        delim == IF ends = {} THEN Len(url) + 1
                 ELSE CHOOSE d \in ends : \A e \in ends : d <= e
    IN  <<SubSeq(url, 3, delim - 1), SubSeq(url, delim, Len(url))>>

\* str.split(c, 1) of a string that holds c: <<before, after>>
SplitAt(s, c) ==
    LET i == Find(s, c, 1) IN <<Take(s, i - 1), Drop(s, i)>>

\* the one element of a one-element set.  A value bound by \in is computed
\* once, however often the expression it is bound in reads it.
The(S) == CHOOSE x \in S : TRUE

\* urlsplit once the netloc is off: the fragment goes first, then the query
SplitQuery(scheme, netloc, fr) ==
    The({[ok |-> TRUE, scheme |-> scheme, netloc |-> netloc, path |-> qu[1],
          query |-> qu[2], fragment |-> fr[2]] :
         qu \in {IF Contains(fr[1], "?") THEN SplitAt(fr[1], "?")
                 ELSE <<fr[1], <<>>>>}})

\* urlsplit once the scheme is off.  ok is FALSE when it raises
\* ValueError("Invalid IPv6 URL"): the fields are then the ones computed when
\* it raised.
SplitRest(scheme, rest) ==
    The({IF nl[3] /\ (Contains(nl[1], "[") # Contains(nl[1], "]"))
         THEN [ok |-> FALSE, scheme |-> scheme, netloc |-> nl[1], path |-> nl[2],
               query |-> <<>>, fragment |-> <<>>]
         ELSE SplitQuery(scheme, nl[1],
                         IF Contains(nl[2], "#") THEN SplitAt(nl[2], "#")
                         ELSE <<nl[2], <<>>>>) :
         nl \in {IF StartsWith(rest, <<"/", "/">>)
                 THEN SplitNetloc(rest) \o <<TRUE>>
                 ELSE <<<<>>, rest, FALSE>>}})

\* urlparse.urlsplit
UrlSplit(url) == The({SplitRest(ss[1], ss[2]) : ss \in {SplitScheme(url)}})

\* urlparse._splitparams: <<path, params>>
SplitParams(url) ==
    LET i == IF Contains(url, "/") THEN Find(url, ";", RFind(url, "/"))
             ELSE Find(url, ";", 1)
    IN  IF Contains(url, "/") /\ i = 0 THEN <<url, <<>>>>
        ELSE <<Take(url, i - 1), Drop(url, i)>>

\* urlparse.urlparse
UrlParse(url) ==
    The({The({[ok |-> t.ok, scheme |-> t.scheme, netloc |-> t.netloc,
               path |-> pp[1], params |-> pp[2], query |-> t.query,
               fragment |-> t.fragment] :
              pp \in {IF t.ok /\ t.scheme \in UsesParams /\ Contains(t.path, ";")
                      THEN SplitParams(t.path) ELSE <<t.path, <<>>>>}}) :
         t \in {UrlSplit(url)}})

\* urlparse.urlunparse, and the urlunsplit it ends in
UrlUnparse(p) ==
    LET u1 == IF p.params # <<>> THEN p.path \o <<";">> \o p.params ELSE p.path
        u2 == IF p.netloc # <<>>
                 \/ (p.scheme # <<>> /\ p.scheme \in UsesNetloc
                     /\ Take(u1, 2) # <<"/", "/">>)
              THEN <<"/", "/">> \o p.netloc
                   \o (IF u1 # <<>> /\ Take(u1, 1) # <<"/">> THEN <<"/">> ELSE <<>>)
                   \o u1
              ELSE u1
        u3 == IF p.scheme # <<>> THEN p.scheme \o <<":">> \o u2 ELSE u2
        u4 == IF p.query # <<>> THEN u3 \o <<"?">> \o p.query ELSE u3
    IN  IF p.fragment # <<>> THEN u4 \o <<"#">> \o p.fragment ELSE u4

(***************************************************************************)
(* LinkPattern.sanitize_url                                                *)
(***************************************************************************)
\* url.replace(' ', '%20')
ReplaceSpaces(url) ==
    Flatten([i \in 1..Len(url) |->
                IF url[i] = " " THEN <<"%", "2", "0">> ELSE <<url[i]>>])

\* parts[2:]
PartsFromPath(p) == <<p.path, p.params, p.query, p.fragment>>

ColonInParts(p) == \E k \in 1..4 : Contains(PartsFromPath(p)[k], ":")

LoclessSchemes == {<<>>, MAILTO, NEWS}

\* the same, with the colon looked for in the path alone
RECURSIVE sanitize_url_path_only(_)
sanitize_url_path_only(url) ==
    The({IF ~parts.ok THEN <<>>
         ELSE IF parts.scheme = <<>> THEN sanitize_url_path_only(HttpSlashes \o url)
         ELSE IF parts.netloc = <<>> /\ parts.scheme \notin LoclessSchemes THEN <<>>
         ELSE IF Contains(parts.path, ":") THEN <<>>
         ELSE UrlUnparse(parts) :
         parts \in {UrlParse(ReplaceSpaces(url))}})

RECURSIVE sanitize_url(_)
sanitize_url(url) ==
    The({IF ~parts.ok THEN <<>>
         ELSE IF parts.scheme = <<>> THEN sanitize_url(HttpSlashes \o url)
         ELSE IF parts.netloc = <<>> /\ parts.scheme \notin LoclessSchemes THEN <<>>
         ELSE IF ColonInParts(parts) THEN <<>>
         ELSE UrlUnparse(parts) :
         parts \in {UrlParse(ReplaceSpaces(url))}})

(***************************************************************************)
(* fixup_link, AutoLink.handleMatch, LinkPattern.handleMatch               *)
(***************************************************************************)
BLANK == <<"_","b","l","a","n","k">>

\* markdown.util.etree.Element(tag): no text, no attribute set
Element(tag) ==
    [tag |-> tag, text |-> NONE, href |-> NONE, target |-> NONE, title |-> NONE]

\* the same, leaving an empty href without a title
fixup_link_nonempty(link) ==
    [link EXCEPT !.target = BLANK,
                 !.title = IF link.href = <<>> THEN NONE ELSE link.href]

fixup_link(link) == [link EXCEPT !.target = BLANK, !.title = link.href]

\* str.strip()
RECURSIVE LStrip(_)
LStrip(s) == IF s # <<>> /\ IsSpace(Head(s)) THEN LStrip(Tail(s)) ELSE s
RECURSIVE RStrip(_)
RStrip(s) ==
    IF s # <<>> /\ IsSpace(s[Len(s)]) THEN RStrip(SubSeq(s, 1, Len(s) - 1)) ELSE s
Strip(s) == LStrip(RStrip(s))

\* Pattern.unescape: every inline placeholder gives way to the text the
\* engine stashed for it.  "PH" is the placeholder, stash its text.
Unescape(s, stash) ==
    Flatten([i \in 1..Len(s) |-> IF s[i] = "PH" THEN stash ELSE <<s[i]>>])

\* the url LinkPattern.handleMatch hands to sanitize_url
PrepareHref(href, stash) ==
    LET h == IF href[1] = "<" THEN SubSeq(href, 2, Len(href) - 1) ELSE href
    IN  Unescape(Strip(h), stash)

LinkElement(text, href, stash) ==
    LET el == [Element("a") EXCEPT !.text = text]
        withHref == IF href # NONE /\ href # <<>>
                    THEN [el EXCEPT !.href = sanitize_url(PrepareHref(href, stash))]
                    ELSE [el EXCEPT !.href = <<>>]
    IN  fixup_link(withHref)

AutoLinkElement(url) ==
    LET a == [Element("a") EXCEPT !.href = url, !.text = url]
    IN  fixup_link(a)

\* the urls the model hands to sanitize_url: a prefix and a generated tail,
\* and the four urls the specification names
UrlPrefixes ==
    {<<>>, <<"h","t","t","p",":">>, HttpSlashes, <<"H","T","T","P",":","/","/">>,
     <<"h","t","t","p",":","/","/","a","/">>, <<"m","a","i","l","t","o",":">>, <<"n","e","w","s",":">>,
     <<"x",":">>, <<"/", "/">>}
UrlTailChars == {"a", "1", ":", "/", "?", "#", ";", " ", "["}

JavascriptUrl == <<"j","a","v","a","s","c","r","i","p","t",":","a","l","e","r","t","(","1",")">>
ColonPathUrl == <<"h","t","t","p",":","/","/","x",".","c","o","m","/","a",":","b">>
SchemelessUrl == <<"e","x","a","m","p","l","e",".","c","o","m","/","a">>
SchemelessOut == <<"h","t","t","p",":","/","/","e","x","a","m","p","l","e",".","c","o","m","/","a">>
MailtoUrl == <<"m","a","i","l","t","o",":","u","s","e","r","@","e","x","a","m","p","l","e",".","c","o","m">>
NamedUrls == {JavascriptUrl, ColonPathUrl, SchemelessUrl, MailtoUrl}

UrlInputs ==
    NamedUrls \cup {p \o t : p \in UrlPrefixes, t \in SeqsUpTo(UrlTailChars, MaxTail)}

\* the hrefs group 9 of LINK_RE captures in the model: none, or a url, bare,
\* in angle brackets, or with spaces around it
HrefPrefixes == {<<>>, HttpSlashes, <<"h","t","t","p",":","/","/","a","/">>, <<"m","a","i","l","t","o",":">>, <<"x",":">>}
HrefTailChars == {"a", ":", "/", " ", "PH"}
HrefWraps == {<< <<>>, <<>> >>, << <<"<">>, <<">">> >>, << <<" ">>, <<" ">> >>,
              << <<"<">>, <<>> >>}
HrefInputs ==
    {NONE} \cup {w[1] \o p \o t \o w[2] :
                    w \in HrefWraps, p \in HrefPrefixes,
                    t \in SeqsUpTo(HrefTailChars, MaxHrefTail)}
Stashes == {<<"a">>, <<":">>}
LinkTexts == {<<>>, <<"a">>}

\* the urls the Autolink regex captures in the model: http:// or https://,
\* then one or more characters that are no whitespace, the shortest run that
\* a tail of characters outside \w and '/' and then whitespace or the end
\* follows
AutoTailChars == UrlTailChars \ {" "}
AutoUrlTail(t) ==
    /\ Len(t) >= 1
    /\ Len(t) = 1 \/ IsWord(t[Len(t)]) \/ t[Len(t)] = "/"
AutoUrls ==
    {ColonPathUrl} \cup
    {p \o t : p \in {HttpSlashes, HttpsSlashes, <<"h","t","t","p",":","/","/","a","/">>},
              t \in {s \in SeqsUpTo(AutoTailChars, MaxTail) : AutoUrlTail(s)}}

NoAnchor == [tag |-> "", text |-> NONE, href |-> NONE, target |-> NONE, title |-> NONE]

\* the variables of the other specifications, at rest
LinkIdle ==
    /\ linkArg = [op |-> "none"] /\ linkOp = "none" /\ urlIn = NONE /\ urlOut = NONE
    /\ anchor = NoAnchor
UListIdle == ulLines = <<>> /\ ulCopy = <<>> /\ ulDone = FALSE
ConvertIdle == cvMd = <<>> /\ cvCalls = <<>> /\ cvLog = <<>>
ConcIdle == pc = <<>> /\ calls = <<>> /\ engine = <<>> /\ abandoned = {}
WireIdle ==
    /\ preprocessors = <<>> /\ blockprocessors = <<>> /\ inlinePatterns = <<>>
    /\ wired = FALSE

\* the calls of the link layer the model makes, one per behaviour
LinkArgs ==
    {[op |-> "sanitize_url", url |-> u] : u \in UrlInputs}
    \cup {[op |-> "link", text |-> t, href |-> h, stash |-> s] :
             t \in LinkTexts, h \in HrefInputs, s \in Stashes}
    \cup {[op |-> "autolink", url |-> u] : u \in AutoUrls}

InitLink ==
    /\ linkArg \in LinkArgs
    /\ linkOp = "none" /\ urlIn = NONE /\ urlOut = NONE /\ anchor = NoAnchor
    /\ UListIdle /\ ConvertIdle /\ ConcIdle /\ WireIdle

\* a call of LinkPattern.sanitize_url
SanitizeUrl ==
    /\ linkOp = "none" /\ linkArg.op = "sanitize_url"
    /\ linkOp' = "sanitize_url"
    /\ urlIn' = linkArg.url
    /\ urlOut' = sanitize_url(linkArg.url)
    /\ UNCHANGED <<linkArg, anchor, ulVars, cvVars, concVars, wireVars>>

\* a call of LinkPattern.handleMatch
LinkHandleMatch ==
    /\ linkOp = "none" /\ linkArg.op = "link"
    /\ LET href == linkArg.href
           captured == href # NONE /\ href # <<>>
       IN  /\ linkOp' = "link"
           /\ urlIn' = IF captured THEN PrepareHref(href, linkArg.stash) ELSE NONE
           /\ urlOut' = IF captured
                        THEN sanitize_url(PrepareHref(href, linkArg.stash))
                        ELSE NONE
           /\ anchor' = LinkElement(linkArg.text, href, linkArg.stash)
    /\ UNCHANGED <<linkArg, ulVars, cvVars, concVars, wireVars>>

\* a call of AutoLink.handleMatch
AutoLinkHandleMatch ==
    /\ linkOp = "none" /\ linkArg.op = "autolink"
    /\ linkOp' = "autolink"
    /\ urlIn' = linkArg.url
    /\ urlOut' = NONE
    /\ anchor' = AutoLinkElement(linkArg.url)
    /\ UNCHANGED <<linkArg, ulVars, cvVars, concVars, wireVars>>

NextLink == SanitizeUrl \/ LinkHandleMatch \/ AutoLinkHandleMatch

SpecLink == InitLink /\ [][NextLink]_vars

(***************************************************************************)
(* The link layer: claims                                                  *)
(***************************************************************************)
\* the decomposition sanitize_url judges: that of the url, with 'http://' put
\* before it when it has no scheme
JudgedParts(url) ==
    The({UrlParse(ReplaceSpaces(IF p0.scheme = <<>> THEN HttpSlashes \o url ELSE url)) :
         p0 \in {UrlParse(ReplaceSpaces(url))}})

Rejected(p) ==
    \/ p.netloc = <<>> /\ p.scheme \notin {MAILTO, NEWS}
    \/ \E part \in {p.path, p.params, p.query, p.fragment} : Contains(part, ":")

NamedUrlsAsSpecified ==
    /\ urlIn = JavascriptUrl => urlOut = <<>>
    /\ urlIn = ColonPathUrl => urlOut = <<>>
    /\ urlIn = SchemelessUrl => urlOut = SchemelessOut
    /\ urlIn = MailtoUrl => urlOut # <<>>

\* C2: every anchor of the Link and of the Autolink pattern carries as href
\* what the sanitizer returns for the captured url, so the empty string when
\* the sanitizer rejects it.
C2_HrefIsSanitized ==
    (linkOp \in {"link", "autolink"} /\ urlIn # NONE)
        => anchor.href = sanitize_url(urlIn)

\* C3, as stated: sanitize_url returns '' when the judged decomposition has an
\* empty netloc and a scheme other than mailto and news, or a colon in its
\* path, params, query or fragment, and the reserialized parts in every other
\* case.
C3_AsStated ==
    linkOp = "sanitize_url" =>
        \A p \in {JudgedParts(urlIn)} :
            urlOut = IF Rejected(p) THEN <<>> ELSE UrlUnparse(p)

\* C3, amended: the same, and '' as well when the url (as given, or with
\* 'http://' before it) cannot be decomposed; the four named urls come out as
\* the specification says.
C3_SanitizeUrl ==
    linkOp = "sanitize_url" =>
        /\ \A p0 \in {UrlParse(ReplaceSpaces(urlIn))}, p \in {JudgedParts(urlIn)} :
              urlOut = IF ~p0.ok \/ ~p.ok \/ Rejected(p) THEN <<>>
                       ELSE UrlUnparse(p)
        /\ NamedUrlsAsSpecified

\* C3's case: a url without a scheme was re-sanitized with 'http://' before
\* it and accepted
C3_Witness ==
    /\ linkOp = "sanitize_url"
    /\ urlIn = SchemelessUrl
    /\ urlOut = SchemelessOut

\* C7: every anchor of the Link and of the Autolink pattern has target
\* '_blank' and its own href as title, an empty href included.
C7_TargetAndTitle ==
    linkOp \in {"link", "autolink"} =>
        /\ anchor.target = BLANK
        /\ anchor.href # NONE
        /\ anchor.title = anchor.href

\* C7's case: the Link pattern captured a url, the sanitizer rejected it, and
\* the anchor has the empty href as its title
C7_Witness ==
    /\ linkOp = "link"
    /\ urlIn # NONE
    /\ urlOut = <<>>
    /\ anchor.href = <<>>
    /\ anchor.title = <<>>
    /\ anchor.target = BLANK

(***************************************************************************)
(* BugdownUListPreprocessor.run                                            *)
(***************************************************************************)
\* how many spaces s starts with
RECURSIVE LeadingSpaces(_)
LeadingSpaces(s) ==
    IF s # <<>> /\ Head(s) = " " THEN 1 + LeadingSpaces(Tail(s)) ELSE 0

\* LI_RE.match(line): ^[ ]{0,3}[*][ ]+(.*)
LI_RE_match(line) ==
    LET k == LeadingSpaces(line)
    IN  /\ k <= 3
        /\ Len(line) >= k + 2
        /\ line[k + 1] = "*"
        /\ line[k + 2] = " "

\* how many times c stands at the start of s
RECURSIVE LeadingRun(_, _)
LeadingRun(s, c) ==
    IF s # <<>> /\ Head(s) = c THEN 1 + LeadingRun(Tail(s), c) ELSE 0

\* FENCE_RE.match(line).group('fence'), NONE when the line does not match: a
\* run of three or more backticks, or of three or more tildes, and after it
\* nothing but a language tag
FENCE_RE_fence(line) ==
    IF line = <<>> \/ Head(line) \notin {"BACKTICK", "~"} THEN NONE
    ELSE LET n == LeadingRun(line, Head(line))
         IN  IF n >= 3 /\ \A k \in (n + 1)..Len(line) : IsWord(line[k])
             THEN SubSeq(line, 1, n)
             ELSE NONE

\* list.insert(n, x), n counted from 0
Insert(s, n, x) == SubSeq(s, 1, n) \o <<x>> \o SubSeq(s, n + 1, Len(s))

\* the fence after the loop body has looked at line: it opens on a fence line
\* when none is open, and closes on a fence line with the token that opened it
NextFence(fence, line) ==
    LET m == FENCE_RE_fence(line)
    IN  IF fence = NONE /\ m # NONE THEN m
        ELSE IF fence # NONE /\ m # NONE /\ fence = m THEN NONE
        ELSE fence

\* the same loop body, the insertion index without the lines inserted so far
RunStepNoShift(lines, i, st) ==
    The({IF f = NONE /\ lines[i] # <<>>
            /\ LI_RE_match(lines[i + 1]) /\ ~LI_RE_match(lines[i])
         THEN [fence |-> f, copy |-> Insert(st.copy, i, <<>>),
               inserts |-> st.inserts + 1]
         ELSE [fence |-> f, copy |-> st.copy, inserts |-> st.inserts] :
         f \in {NextFence(st.fence, lines[i])}})

\* one pass of the loop body of run, at line i (counted from 1); st holds
\* fence, copy and inserts
RunStep(lines, i, st) ==
    The({IF f = NONE /\ lines[i] # <<>>
            /\ LI_RE_match(lines[i + 1]) /\ ~LI_RE_match(lines[i])
         THEN [fence |-> f, copy |-> Insert(st.copy, i + st.inserts, <<>>),
               inserts |-> st.inserts + 1]
         ELSE [fence |-> f, copy |-> st.copy, inserts |-> st.inserts] :
         f \in {NextFence(st.fence, lines[i])}})

\* the loop of run from line i on: for i in xrange(len(lines) - 1)
RECURSIVE RunLoop(_, _, _)
RunLoop(lines, i, st) ==
    IF i > Len(lines) - 1 THEN st
    ELSE The({RunLoop(lines, i + 1, s2) : s2 \in {RunStep(lines, i, st)}})

\* BugdownUListPreprocessor.run(lines)
UListRun(lines) ==
    RunLoop(lines, 1, [fence |-> NONE, copy |-> lines, inserts |-> 0]).copy

Hello == <<"h","e","l","l","o">>
Item == <<"*"," ","i","t","e","m">>
\* the lines of the model: empty, text, bullets after no and after one space,
\* a bullet four spaces in (no bullet line), fences of two tokens and lengths,
\* a fence with a language tag
LineSet ==
    {<<>>, Hello, Item, <<" ","*"," ","b">>, <<" "," "," "," ","*"," ","c">>,
     <<"BACKTICK","BACKTICK","BACKTICK">>, <<"BACKTICK","BACKTICK","BACKTICK","BACKTICK">>, <<"~","~","~">>, <<"BACKTICK","BACKTICK","BACKTICK","p","y">>}

InitUList ==
    /\ ulLines \in SeqsUpTo(LineSet, MaxLines)
    /\ ulCopy = <<>> /\ ulDone = FALSE
    /\ LinkIdle /\ ConvertIdle /\ ConcIdle /\ WireIdle

\* a call of BugdownUListPreprocessor.run
Run ==
    /\ ~ulDone
    /\ ulCopy' = UListRun(ulLines)
    /\ ulDone' = TRUE
    /\ UNCHANGED <<ulLines, linkVars, cvVars, concVars, wireVars>>

NextUList == Run

SpecUList == InitUList /\ [][NextUList]_vars

\* the fence open after lines 1..i have been scanned, NONE when none is: a
\* fence opens on the first fence line and closes only on a later fence line
\* with the same token
RECURSIVE OpenFenceAfter(_, _)
OpenFenceAfter(lines, i) ==
    IF i = 0 THEN NONE
    ELSE The({IF open = NONE THEN FENCE_RE_fence(lines[i])
              ELSE IF FENCE_RE_fence(lines[i]) = open THEN NONE
              ELSE open :
              open \in {OpenFenceAfter(lines, i - 1)}})

\* the i after which the claim has an empty line inserted
HangingAt(lines) ==
    {i \in 1..(Len(lines) - 1) :
        /\ lines[i] # <<>>
        /\ ~LI_RE_match(lines[i])
        /\ LI_RE_match(lines[i + 1])
        /\ OpenFenceAfter(lines, i) = NONE}

WithEmptyLinesAfter(lines, at) ==
    Flatten([i \in 1..Len(lines) |->
                IF i \in at THEN <<lines[i], <<>>>> ELSE <<lines[i]>>])

\* C6: run returns its input with one empty line inserted after line i for
\* exactly the i where line i is non-empty and no bullet line, line i+1 is a
\* bullet line and no fence is open after lines 1..i; nothing else changes.
C6_HangingLists ==
    ulDone =>
        /\ ulCopy = WithEmptyLinesAfter(ulLines, HangingAt(ulLines))
        /\ Len(ulCopy) = Len(ulLines) + Cardinality(HangingAt(ulLines))
        /\ ulLines = <<Hello, Item>> => ulCopy = <<Hello, <<>>, Item>>
        /\ ulLines = <<<<"BACKTICK","BACKTICK","BACKTICK">>, Hello, Item, <<"BACKTICK","BACKTICK","BACKTICK">>>> => ulCopy = ulLines

\* C6's case: two lists hang off two paragraphs, and both got their empty line
C6_Witness ==
    /\ ulDone
    /\ ulLines = <<Hello, Item, Hello, Item>>
    /\ ulCopy = <<Hello, <<>>, Item, Hello, <<>>, Item>>

(***************************************************************************)
(* _sanitize_for_log and convert                                           *)
(***************************************************************************)
\* _privacy_re.sub('x', md)
PrivacySub(md) == [i \in 1..Len(md) |-> IF IsWord(md[i]) THEN "x" ELSE md[i]]

\* the quote repr() puts around a str: the double quote when the string holds
\* a single quote and no double quote, the single quote otherwise
ReprQuote(s) == IF Contains(s, "'") /\ ~Contains(s, "\"") THEN "\"" ELSE "'"

\* repr() of a str: quoted, with the backslash, the quote, the newline and the
\* tab escaped
Repr(s) ==
    <<ReprQuote(s)>>
    \o Flatten([i \in 1..Len(s) |->
                  CASE s[i] = "\\"        -> <<"\\", "\\">>
                    [] s[i] = ReprQuote(s) -> <<"\\", s[i]>>
                    [] s[i] = "LF"        -> <<"\\", "n">>
                    [] s[i] = "TAB"       -> <<"\\", "t">>
                    [] OTHER              -> <<s[i]>>])
    \o <<ReprQuote(s)>>

\* the same, with the letters replaced and the digits left
sanitize_for_log_letters(md) ==
    Repr([i \in 1..Len(md) |->
             IF md[i] \in LowerLetters \cup UpperLetters THEN "x" ELSE md[i]])

sanitize_for_log(md) == Repr(PrivacySub(md))

FallbackHtml ==
    "<p>[Humbug note: Sorry, we could not understand the formatting of your message]</p>"

\* the same, with the fallback kept for raised failures only
ConvertHtmlNoTimeout(run, html) ==
    CASE run = "ok"      -> html
      [] run = "timeout" -> ""
      [] OTHER           -> FallbackHtml

\* the html convert holds when try/except is over: the pipeline's on normal
\* completion, the fallback when timeout() raised, whatever it raised
ConvertHtml(run, html) == IF run = "ok" THEN html ELSE FallbackHtml

\* the records the except clause hands to the root logger
ConvertLogged(run, md) ==
    IF run = "ok" THEN <<>>
    ELSE <<[level |-> "error",
            trace |-> IF run = "timeout" THEN "TimeoutExpired" ELSE "Exception",
            input |-> sanitize_for_log(md)]>>

\* the characters of the messages of the model: letters (the filler among
\* them), a digit, a space, both quotes, the backslash, the newline
MsgChars == {"a", "x", "1", " ", "'", "\"", "\\", "LF"}

\* what _md_engine.reset() does, what timeout(5, _md_engine.convert, md) does
ResetOutcomes == {"ok", "raise"}
RunOutcomes == {"ok", "timeout", "raise"}
\* what the pipeline returns when it completes
PipelineHtml == {"<p>text</p>", "<ul><li>item</li></ul>"}

InitConvert ==
    /\ cvMd \in SeqsUpTo(MsgChars, MaxMsg)
    /\ cvCalls = <<>> /\ cvLog = <<>>
    /\ LinkIdle /\ UListIdle /\ ConcIdle /\ WireIdle

\* a call of convert(cvMd).  reset() is outside the try: when it raises, the
\* pipeline does not run and the exception leaves convert.  A run that does
\* not complete produces no html: html is then fixed, to count the call once.
Convert ==
    /\ Len(cvCalls) < MaxConvertCalls
    /\ \E reset \in ResetOutcomes, run \in RunOutcomes, html \in PipelineHtml :
          /\ run # "ok" => html = "<p>text</p>"
          /\ IF reset = "raise"
             THEN /\ cvCalls' = Append(cvCalls, [status |-> "raised", reset |-> reset,
                                                 run |-> "none", html |-> "",
                                                 value |-> ""])
                  /\ cvLog' = cvLog
             ELSE /\ cvCalls' = Append(cvCalls, [status |-> "returned", reset |-> reset,
                                                 run |-> run, html |-> html,
                                                 value |-> ConvertHtml(run, html)])
                  /\ cvLog' = cvLog \o ConvertLogged(run, cvMd)
    /\ UNCHANGED <<cvMd, linkVars, ulVars, concVars, wireVars>>

NextConvert == Convert

SpecConvert == InitConvert /\ [][NextConvert]_vars

Failed(call) == call.run \in {"timeout", "raise"}

\* C1: whatever the reset and the pipeline run do, convert returns a string
\* and lets no exception out.
C1_AlwaysReturns ==
    \A i \in 1..Len(cvCalls) : cvCalls[i].status = "returned"

SpecifiedFallback ==
    "<p>[Note: Sorry, we could not understand the formatting of your message]</p>"

\* C4, as stated: a call whose pipeline run timed out or failed returns the
\* fragment '<p>[Note: Sorry, ...]</p>'; one whose run completed returns the
\* pipeline's html.
C4_AsStated ==
    \A i \in 1..Len(cvCalls) :
        /\ Failed(cvCalls[i]) => cvCalls[i].value = SpecifiedFallback
        /\ cvCalls[i].run = "ok" => cvCalls[i].value = cvCalls[i].html

\* C4, amended: the fragment is '<p>[Humbug note: Sorry, ...]</p>', the same
\* for a timeout and for a raised failure.
C4_Fallback ==
    \A i \in 1..Len(cvCalls) :
        /\ Failed(cvCalls[i]) =>
              /\ cvCalls[i].status = "returned"
              /\ cvCalls[i].value =
                    "<p>[Humbug note: Sorry, we could not understand the formatting of your message]</p>"
        /\ cvCalls[i].run = "ok" =>
              /\ cvCalls[i].status = "returned"
              /\ cvCalls[i].value = cvCalls[i].html

\* C4's case: a run that timed out and a run that raised, both answered with
\* the same fragment
C4_Witness ==
    /\ Len(cvCalls) = 2
    /\ cvCalls[1].run = "timeout" /\ cvCalls[2].run = "raise"
    /\ cvCalls[1].value = cvCalls[2].value
    /\ cvCalls[1].value = FallbackHtml

\* what repr() wrote, read back: the quotes off, the escapes undone
RECURSIVE Unescaped(_)
Unescaped(s) ==
    IF s = <<>> THEN <<>>
    ELSE IF Head(s) = "\\" /\ Len(s) >= 2
         THEN <<CASE s[2] = "n" -> "LF" [] s[2] = "t" -> "TAB" [] OTHER -> s[2]>>
              \o Unescaped(SubSeq(s, 3, Len(s)))
         ELSE <<Head(s)>> \o Unescaped(Tail(s))
Unrepr(r) == Unescaped(SubSeq(r, 2, Len(r) - 1))

\* C5: a call whose pipeline run timed out or failed logs exactly one record,
\* at error level, with the input redacted (every \w character replaced by
\* 'x', the rest kept) and escaped; a call whose run completed logs none.
C5_RedactedLog ==
    /\ Len(cvLog) = Cardinality({i \in 1..Len(cvCalls) : Failed(cvCalls[i])})
    /\ \A k \in 1..Len(cvLog) :
          /\ cvLog[k].level = "error"
          /\ \A shown \in {Unrepr(cvLog[k].input)} :
                /\ Len(shown) = Len(cvMd)
                /\ \A i \in 1..Len(cvMd) :
                      shown[i] = IF IsWord(cvMd[i]) THEN "x" ELSE cvMd[i]
          /\ \A i \in 2..(Len(cvLog[k].input) - 1) :
                cvLog[k].input[i] \notin {"LF", "TAB"}

\* C5's case: a message of a letter and a digit, a run that completed and
\* logged nothing, then a run that timed out and logged the two as 'xx'
C5_Witness ==
    /\ cvMd = <<"a", "1">>
    /\ Len(cvCalls) = 2
    /\ cvCalls[1].run = "ok" /\ cvCalls[2].run = "timeout"
    /\ Len(cvLog) = 1
    /\ cvLog[1].input = <<"'", "x", "x", "'">>

(***************************************************************************)
(* convert called from several threads: the one module-level _md_engine    *)
(***************************************************************************)
Threads == {1, 2}

\* no call has reset the engine yet
NoCall == <<0, 0>>

\* the call thread t is in
CallOf(t) == <<t, calls[t]>>

InitConc ==
    /\ pc = [t \in Threads |-> "idle"]
    /\ calls = [t \in Threads |-> 0]
    /\ engine = [resetBy |-> NoCall, touched |-> {}]
    /\ abandoned = {}
    /\ LinkIdle /\ UListIdle /\ ConvertIdle /\ WireIdle

\* thread t enters convert and runs _md_engine.reset()
ConcReset(t) ==
    /\ pc[t] = "idle"
    /\ calls[t] < MaxCalls
    /\ calls' = [calls EXCEPT ![t] = @ + 1]
    /\ engine' = [resetBy |-> <<t, calls[t] + 1>>, touched |-> {}]
    /\ pc' = [pc EXCEPT ![t] = "reset"]
    /\ UNCHANGED <<abandoned, linkVars, ulVars, cvVars, wireVars>>

\* the pipeline run of thread t's call works on the engine
ConcPipeline(t) ==
    /\ pc[t] \in {"reset", "run"}
    /\ engine' = [engine EXCEPT !.touched = @ \cup {CallOf(t)}]
    /\ pc' = [pc EXCEPT ![t] = "run"]
    /\ UNCHANGED <<calls, abandoned, linkVars, ulVars, cvVars, wireVars>>

\* the pipeline run of thread t's call ends, normally or raising, and convert
\* returns
ConcReturn(t) ==
    /\ pc[t] = "run"
    /\ pc' = [pc EXCEPT ![t] = "idle"]
    /\ UNCHANGED <<calls, engine, abandoned, linkVars, ulVars, cvVars, wireVars>>

\* the time budget of thread t's call runs out: convert returns the fallback
\* and the pipeline run is left in flight
ConcTimeout(t) ==
    /\ pc[t] = "run"
    /\ abandoned' = abandoned \cup {CallOf(t)}
    /\ pc' = [pc EXCEPT ![t] = "idle"]
    /\ UNCHANGED <<calls, engine, linkVars, ulVars, cvVars, wireVars>>

\* an abandoned pipeline run works on the engine
AbandonedPipeline(c) ==
    /\ c \in abandoned
    /\ engine' = [engine EXCEPT !.touched = @ \cup {c}]
    /\ UNCHANGED <<pc, calls, abandoned, linkVars, ulVars, cvVars, wireVars>>

\* an abandoned pipeline run ends
AbandonedEnd(c) ==
    /\ c \in abandoned
    /\ abandoned' = abandoned \ {c}
    /\ UNCHANGED <<pc, calls, engine, linkVars, ulVars, cvVars, wireVars>>

NextConc ==
    \/ \E t \in Threads : ConcReset(t)
    \/ \E t \in Threads : ConcPipeline(t)
    \/ \E t \in Threads : ConcReturn(t)
    \/ \E t \in Threads : ConcTimeout(t)
    \/ \E c \in abandoned : AbandonedPipeline(c)
    \/ \E c \in abandoned : AbandonedEnd(c)

SpecConc == InitConc /\ [][NextConc]_vars

\* C8: while a call is between its reset and the end of its pipeline run, the
\* engine is in the state its own reset and its own run made: no other call
\* has reset it or worked on it in between.
C8_NoOverlap ==
    \A t \in Threads :
        pc[t] \in {"reset", "run"} =>
            /\ engine.resetBy = CallOf(t)
            /\ engine.touched \subseteq {CallOf(t)}

(***************************************************************************)
(* Bugdown.extendMarkdown                                                  *)
(***************************************************************************)
\* markdown.odict.OrderedDict.index(key), from 1; 0 when key is missing
IndexOf(reg, key) ==
    IF \E i \in 1..Len(reg) : reg[i] = key
    THEN CHOOSE i \in 1..Len(reg) : reg[i] = key
    ELSE 0

\* del reg[key]
Del(reg, key) == SelectSeq(reg, LAMBDA k : k # key)

RECURSIVE DelAll(_, _)
DelAll(reg, keys) ==
    IF keys = <<>> THEN reg ELSE DelAll(Del(reg, Head(keys)), Tail(keys))

\* OrderedDict.add(key, value, location): '_begin' puts the key first, '_end'
\* last, '<name' right before name, '>name' right after it
Add(reg, key, at, name) ==
    CASE at = "_begin" -> <<key>> \o reg
      [] at = "_end"   -> Append(reg, key)
      [] at = "<"      -> Insert(reg, IndexOf(reg, name) - 1, key)
      [] at = ">"      -> Insert(reg, IndexOf(reg, name), key)

\* the same, the custom list stage put before 'hr'
WireBlockBeforeHr(reg) ==
    Add(DelAll(reg, <<"hashheader", "setextheader", "olist", "ulist">>),
        "ulist", "<", "hr")

\* extendMarkdown on md.parser.blockprocessors
WireBlock(reg) ==
    Add(DelAll(reg, <<"hashheader", "setextheader", "olist", "ulist">>),
        "ulist", ">", "hr")

\* the same, the Autolink pattern put after 'backtick' as the Link pattern is
WireInlineAutolinkAfterBacktick(reg) ==
    Add(Add(Add(DelAll(reg, <<"image_link", "image_reference", "automail",
                              "autolink", "link", "reference", "short_reference",
                              "escape">>),
                "gravatar", "_begin", ""),
            "link", ">", "backtick"),
        "autolink", ">", "backtick")

\* extendMarkdown on md.inlinePatterns
WireInline(reg) ==
    Add(Add(Add(DelAll(reg, <<"image_link", "image_reference", "automail",
                              "autolink", "link", "reference", "short_reference",
                              "escape">>),
                "gravatar", "_begin", ""),
            "link", ">", "backtick"),
        "autolink", ">", "link")

\* extendMarkdown on md.preprocessors
WirePre(reg) == Add(Del(reg, "reference"), "hanging_ulists", "_begin", "")

\* the stages of the engine handed to extendMarkdown, 'hr' and 'backtick'
\* left out: the engine's own, and those of the extensions named before
\* Bugdown (fenced_code, nl2br)
DefaultPre == <<"fenced_code_block", "html_block", "reference">>
DefaultBlockOthers ==
    <<"empty", "indent", "code", "hashheader", "setextheader", "olist", "ulist",
      "quote", "paragraph">>
DefaultInlineOthers ==
    <<"escape", "reference", "link", "image_link", "image_reference",
      "short_reference", "autolink", "automail", "linebreak", "html", "entity",
      "not_strong", "strong_em", "strong", "emphasis", "emphasis2", "nl">>

InitWire ==
    /\ preprocessors = DefaultPre
    /\ \E n \in 0..Len(DefaultBlockOthers) :
          blockprocessors = Insert(DefaultBlockOthers, n, "hr")
    /\ \E n \in 0..Len(DefaultInlineOthers) :
          inlinePatterns = Insert(DefaultInlineOthers, n, "backtick")
    /\ wired = FALSE
    /\ LinkIdle /\ UListIdle /\ ConvertIdle /\ ConcIdle

\* Bugdown.extendMarkdown(md, md_globals)
ExtendMarkdown ==
    /\ ~wired
    /\ preprocessors' = WirePre(preprocessors)
    /\ blockprocessors' = WireBlock(blockprocessors)
    /\ inlinePatterns' = WireInline(inlinePatterns)
    /\ wired' = TRUE
    /\ UNCHANGED <<linkVars, ulVars, cvVars, concVars>>

NextWire == ExtendMarkdown

SpecWire == InitWire /\ [][NextWire]_vars

\* C9, as stated: once wired, the custom 'ulist' stage comes before 'hr' in
\* the block-structure order.
C9_AsStated ==
    wired => IndexOf(blockprocessors, "ulist") < IndexOf(blockprocessors, "hr")

\* C9, amended: once wired, the custom 'ulist' stage is in the order once, and
\* right after 'hr': a line both could claim is tried as a rule first.
C9_UListAfterHr ==
    wired =>
        /\ IndexOf(blockprocessors, "hr") > 0
        /\ IndexOf(blockprocessors, "ulist") = IndexOf(blockprocessors, "hr") + 1
        /\ Cardinality({i \in 1..Len(blockprocessors) : blockprocessors[i] = "ulist"}) = 1
        /\ \A i \in 1..Len(blockprocessors) :
              blockprocessors[i] \notin {"olist", "hashheader", "setextheader"}

\* C9's case: 'hr' stood after the default list stages, and the custom list
\* stage now stands behind it
C9_Witness ==
    /\ wired
    /\ blockprocessors = <<"empty", "indent", "code", "hr", "ulist", "quote", "paragraph">>

\* C10, as stated: once wired, the Link pattern comes right before 'backtick'
\* in the inline order and the Autolink pattern right after the Link pattern.
C10_AsStated ==
    wired =>
        /\ IndexOf(inlinePatterns, "link") + 1 = IndexOf(inlinePatterns, "backtick")
        /\ IndexOf(inlinePatterns, "autolink") = IndexOf(inlinePatterns, "link") + 1

\* C10, amended: once wired, the Link pattern comes right after 'backtick', so
\* code spans are tried before links, and the Autolink pattern right after the
\* Link pattern.
C10_LinkAfterBacktick ==
    wired =>
        /\ IndexOf(inlinePatterns, "backtick") > 0
        /\ IndexOf(inlinePatterns, "link") = IndexOf(inlinePatterns, "backtick") + 1
        /\ IndexOf(inlinePatterns, "autolink") = IndexOf(inlinePatterns, "link") + 1
        /\ Cardinality({i \in 1..Len(inlinePatterns) :
                           inlinePatterns[i] \in {"link", "autolink"}}) = 2

\* C10's case: 'backtick' stood first, as in the engine's own order, and the
\* three now stand in the order gravatar, backtick, link, autolink
C10_Witness ==
    /\ wired
    /\ SubSeq(inlinePatterns, 1, 4) = <<"gravatar", "backtick", "link", "autolink">>

====
